---------------------------- MODULE Spec2Model ----------------------------
(***************************************************************************)
(* version-compare: VersionCompare::compare and VersionCompare::compare_to *)
(* (src/src/lib.rs) over the Version / VersionPart / CompOp value types.   *)
(*                                                                         *)
(* A version string is a sequence of one-character strings.  The facade    *)
(* functions of lib.rs are modelled from their code; the modules they      *)
(* call (version, version_part, comp_op) are modelled from the design      *)
(* document, sections 3, 4.1 - 4.4.                                        *)
(***************************************************************************)
EXTENDS Integers, Sequences, FiniteSets

VARIABLES a, b, c, operator, pc, result, result_to, chain

vars == <<a, b, c, operator, pc, result, result_to, chain>>

---------------------------------------------------------------------------
(* Bounds of the checked input space.                                      *)

\* Most segments of a generated input string.
MaxParts == 3

---------------------------------------------------------------------------
(* Characters.                                                             *)

\* Character code (ASCII) of the characters the model uses.
Code(ch) ==
    CASE ch = "!" -> 33
      [] ch = "-" -> 45
      [] ch = "." -> 46
      [] ch = "0" -> 48
      [] ch = "1" -> 49
      [] ch = "2" -> 50
      [] ch = "3" -> 51
      [] ch = "4" -> 52
      [] ch = "a" -> 97
      [] ch = "b" -> 98
      [] ch = "h" -> 104
      [] ch = "l" -> 108
      [] ch = "p" -> 112

IsDigit(ch) == Code(ch) >= 48 /\ Code(ch) <= 57

IsAlpha(ch) == Code(ch) >= 97 /\ Code(ch) <= 122

\* The accepted alphabet of a segment: ASCII alphanumerics and the hyphen.
IsAccepted(ch) == IsDigit(ch) \/ IsAlpha(ch) \/ ch = "-"

---------------------------------------------------------------------------
(* CompOp.                                                                 *)

CompOp == {"Eq", "Ne", "Lt", "Le", "Ge", "Gt"}

\* CompOp::invert, by the table of section 4.4.
CompOp_invert(op) ==
    CASE op = "Eq" -> "Ne"
      [] op = "Ne" -> "Eq"
      [] op = "Lt" -> "Gt"
      [] op = "Gt" -> "Lt"
      [] op = "Le" -> "Ge"
      [] op = "Ge" -> "Le"

---------------------------------------------------------------------------
(* VersionPart.                                                            *)

Number(n) == [kind |-> "Number", num |-> n, text |-> <<>>]

Text(s) == [kind |-> "Text", num |-> 0, text |-> s]

\* Decimal value of a sequence of digits, most significant first.
RECURSIVE ParseInt(_, _)
ParseInt(seg, acc) ==
    IF seg = <<>> THEN acc
    ELSE ParseInt(Tail(seg), acc * 10 + (Code(Head(seg)) - 48))

\* The Part constructor: all digits gives Number, anything else Text.
VersionPart_from(seg) ==
    IF \A i \in 1..Len(seg) : IsDigit(seg[i])
    THEN Number(ParseInt(seg, 0))
    ELSE Text(seg)

\* Lexicographic three-way comparison by character code.
RECURSIVE StrCmp(_, _)
StrCmp(s, t) ==
    IF s = <<>> /\ t = <<>> THEN "Eq"
    ELSE IF s = <<>> THEN "Lt"
    ELSE IF t = <<>> THEN "Gt"
    ELSE IF Code(Head(s)) < Code(Head(t)) THEN "Lt"
    ELSE IF Code(Head(s)) > Code(Head(t)) THEN "Gt"
    ELSE StrCmp(Tail(s), Tail(t))

\* Ordering of two present parts.
VersionPart_cmp_wrong(p, q) ==
    IF p.kind = "Number" /\ q.kind = "Number"
    THEN IF p.num < q.num THEN "Lt" ELSE IF p.num > q.num THEN "Gt" ELSE "Eq"
    ELSE IF p.kind = "Text" /\ q.kind = "Text"
    THEN StrCmp(p.text, q.text)
    ELSE "Lt"

VersionPart_cmp(p, q) ==
    IF p.kind = "Number" /\ q.kind = "Number"
    THEN IF p.num < q.num THEN "Lt" ELSE IF p.num > q.num THEN "Gt" ELSE "Eq"
    ELSE IF p.kind = "Text" /\ q.kind = "Text"
    THEN StrCmp(p.text, q.text)
    ELSE IF p.kind = "Number" THEN "Lt" ELSE "Gt"

\* Ordering of a present part against the absence of a part.
VersionPart_cmp_absent(p) ==
    IF p.kind = "Number" /\ p.num = 0 THEN "Eq" ELSE "Gt"

---------------------------------------------------------------------------
(* Version.                                                                *)

None == [some |-> FALSE, version |-> <<>>, parts |-> <<>>]

Some(str, ps) == [some |-> TRUE, version |-> str, parts |-> ps]

\* Split on the '.' delimiter: the segments, empty ones included.
RECURSIVE Split(_, _, _)
Split(str, cur, acc) ==
    IF str = <<>> THEN Append(acc, cur)
    ELSE IF Head(str) = "." THEN Split(Tail(str), <<>>, Append(acc, cur))
    ELSE Split(Tail(str), Append(cur, Head(str)), acc)

\* Version::from: no Version for the empty string, an empty segment or a
\* character outside the accepted alphabet.
Version_from(str) ==
    LET segs == Split(str, <<>>, <<>>) IN
    IF str = <<>> THEN None
    ELSE IF \E i \in 1..Len(segs) : segs[i] = <<>> THEN None
    ELSE IF \E i \in 1..Len(segs) :
               \E j \in 1..Len(segs[i]) : ~IsAccepted(segs[i][j]) THEN None
    ELSE Some(str, [i \in 1..Len(segs) |-> VersionPart_from(segs[i])])

\* Flip a three-way result.
Flip(r) == IF r = "Lt" THEN "Gt" ELSE IF r = "Gt" THEN "Lt" ELSE r

\* Version::compare on the part sequences: walk index by index, stop at the
\* first result that is not Eq; an exhausted side counts as absence.
RECURSIVE ComparePartsFrom(_, _, _)
ComparePartsFrom(ps, qs, i) ==
    IF i > Len(ps) /\ i > Len(qs) THEN "Eq"
    ELSE LET r == IF i > Len(qs) THEN VersionPart_cmp_absent(ps[i])
                  ELSE IF i > Len(ps) THEN Flip(VersionPart_cmp_absent(qs[i]))
                  ELSE VersionPart_cmp(ps[i], qs[i])
         IN IF r # "Eq" THEN r ELSE ComparePartsFrom(ps, qs, i + 1)

Version_compare(v, w) == ComparePartsFrom(v.parts, w.parts, 1)

\* Version::compare_to: evaluate an operator against the three-way result.
Version_compare_to(v, w, op) ==
    LET r == Version_compare(v, w) IN
    CASE op = "Eq" -> r = "Eq"
      [] op = "Ne" -> r # "Eq"
      [] op = "Lt" -> r = "Lt"
      [] op = "Gt" -> r = "Gt"
      [] op = "Le" -> r # "Gt"
      [] op = "Ge" -> r # "Lt"

---------------------------------------------------------------------------
(* VersionCompare (src/src/lib.rs).                                        *)

Err == [ok |-> FALSE, val |-> "none"]

Ok(v) == [ok |-> TRUE, val |-> v]

\* Variants of compare with a slip in it.
compare_checks_a_only(x, y) ==
    LET a_ver == Version_from(x)
        b_ver == Version_from(y)
    IN IF ~a_ver.some THEN Err
       ELSE Ok(Version_compare(a_ver, b_ver))

compare_inverted(x, y) ==
    LET a_ver == Version_from(x)
        b_ver == Version_from(y)
    IN IF ~a_ver.some \/ ~b_ver.some THEN Err
       ELSE Ok(CompOp_invert(Version_compare(a_ver, b_ver)))

compare_swapped(x, y) ==
    LET a_ver == Version_from(x)
        b_ver == Version_from(y)
    IN IF ~a_ver.some \/ ~b_ver.some THEN Err
       ELSE Ok(Version_compare(b_ver, a_ver))

\* VersionCompare::compare.
compare(x, y) ==
    LET a_ver == Version_from(x)
        b_ver == Version_from(y)
    IN IF ~a_ver.some \/ ~b_ver.some THEN Err
       ELSE Ok(Version_compare(a_ver, b_ver))

\* Variants of compare_to with a slip in it.
compare_to_swapped(x, y, op) ==
    LET a_ver == Version_from(x)
        b_ver == Version_from(y)
    IN IF ~a_ver.some \/ ~b_ver.some THEN Err
       ELSE Ok(Version_compare_to(b_ver, a_ver, op))

compare_to_self(x, y, op) ==
    LET a_ver == Version_from(x)
        b_ver == Version_from(y)
    IN IF ~a_ver.some \/ ~b_ver.some THEN Err
       ELSE Ok(Version_compare_to(a_ver, a_ver, op))

\* VersionCompare::compare_to.
compare_to(x, y, op) ==
    LET a_ver == Version_from(x)
        b_ver == Version_from(y)
    IN IF ~a_ver.some \/ ~b_ver.some THEN Err
       ELSE Ok(Version_compare_to(a_ver, b_ver, op))

---------------------------------------------------------------------------
(* Inputs.                                                                 *)

Segments == {<<"0">>, <<"1">>, <<"a">>}

\* Every string of at most n segments of segs joined by dots.
RECURSIVE Joined(_, _)
Joined(n, segs) ==
    IF n = 1 THEN segs
    ELSE LET fewer == Joined(n - 1, segs)
         IN fewer \cup {s \o <<".">> \o g : s \in fewer, g \in segs}

\* The version strings of the documentation and of the design document,
\* and strings with longer segments and characters Joined does not build.
Examples ==
    { <<"1", ".", "2", ".", "3">>,                 \* "1.2.3"
      <<"1", ".", "2", ".", "4">>,                 \* "1.2.4"
      <<"1", ".", "2">>,                           \* "1.2"
      <<"1", ".", "2", ".", "0", ".", "0">>,       \* "1.2.0.0"
      <<"1", ".", "0", "a">>,                      \* "1.0a"
      <<"1", ".", "a", "l", "p", "h", "a">>,       \* "1.alpha"
      <<"1", ".", "0", ".", "1", ".", "0">>,       \* "1.0.1.0"
      <<"1", ".", "0", "-", "b">>,                 \* "1.0-b"
      <<"0", "1">>, <<"1", "0">>, <<"0", "1", "1">>, <<"1", "0", "0">>,
      <<"a", "a">>, <<"a", "b">>, <<"b">>, <<"1", ".", "b">>,
      <<"!">>, <<"1", "!">>, <<"1", ".", "!">>, <<"!", ".", "1">>,
      <<"a", "!", ".", "0">> }

\* Raw strings: segments, the empty one among them, joined by dots.
Inputs == Joined(MaxParts, Segments \cup {<<>>}) \cup Examples

Init ==
    /\ a \in Inputs
    /\ b \in Inputs
    /\ c = <<>>
    /\ operator = "none"
    /\ pc = "start"
    /\ result = Err
    /\ result_to = Err
    /\ chain = <<>>

\* A call of VersionCompare::compare(a, b).
Compare ==
    /\ pc = "start"
    /\ result' = compare(a, b)
    /\ pc' = "compare"
    /\ UNCHANGED <<a, b, c, operator, result_to, chain>>

\* A call of VersionCompare::compare_to(a, b, op).
CompareTo(op) ==
    /\ pc = "start"
    /\ operator' = op
    /\ result_to' = compare_to(a, b, op)
    /\ pc' = "compare_to"
    /\ UNCHANGED <<a, b, c, result, chain>>

Next ==
    \/ Compare
    \/ \E op \in CompOp : CompareTo(op)

Spec == Init /\ [][Next]_vars

---------------------------------------------------------------------------
(* Three versions compared in a chain: compare(a, b), then compare(b, c)   *)
(* for any third version c, then compare(a, c).                            *)

\* Valid version strings.
Versions ==
    Joined(MaxParts, Segments)
        \cup { <<"b">>, <<"1", ".", "b">>, <<"1", "0">>, <<"a", "a">> }

InitChain ==
    /\ a \in Versions
    /\ b \in Versions
    /\ c = <<>>
    /\ operator = "none"
    /\ pc = "chain"
    /\ result = Err
    /\ result_to = Err
    /\ chain = <<>>

ChainAB ==
    /\ pc = "chain"
    /\ chain' = <<compare(a, b)>>
    /\ pc' = "chain_ab"
    /\ UNCHANGED <<a, b, c, operator, result, result_to>>

ChainBC(v3) ==
    /\ pc = "chain_ab"
    /\ chain[1] = Ok("Lt")
    /\ c' = v3
    /\ chain' = Append(chain, compare(b, v3))
    /\ pc' = "chain_bc"
    /\ UNCHANGED <<a, b, operator, result, result_to>>

ChainAC ==
    /\ pc = "chain_bc"
    /\ chain[2] = Ok("Lt")
    /\ chain' = Append(chain, compare(a, c))
    /\ pc' = "chain_ac"
    /\ UNCHANGED <<a, b, c, operator, result, result_to>>

NextChain ==
    \/ ChainAB
    \/ \E v3 \in Versions : ChainBC(v3)
    \/ ChainAC

SpecChain == InitChain /\ [][NextChain]_vars

---------------------------------------------------------------------------
(* Properties.                                                             *)

\* The strings the properties name.
S_empty == <<>>
S_1 == <<"1">>
S_0_1 == <<"0", ".", "1">>
S_1_0 == <<"1", ".", "0">>
S_1_1 == <<"1", ".", "1">>
S_1_2 == <<"1", ".", "2">>
S_1__0 == <<"1", ".", ".", "0">>
S_1_0_0 == <<"1", ".", "0", ".", "0">>
S_1_1_1 == <<"1", ".", "1", ".", "1">>
S_1_2_3 == <<"1", ".", "2", ".", "3">>
S_1_2_0_0 == <<"1", ".", "2", ".", "0", ".", "0">>
S_1_alpha == <<"1", ".", "a", "l", "p", "h", "a">>

\* A string that is no version, stated on the raw characters: empty, a
\* leading or trailing dot, two dots in a row, or a character that is
\* neither a dot nor of the accepted alphabet.
Malformed(s) ==
    \/ s = <<>>
    \/ s[1] = "."
    \/ s[Len(s)] = "."
    \/ \E i \in 1..(Len(s) - 1) : s[i] = "." /\ s[i + 1] = "."
    \/ \E i \in 1..Len(s) : s[i] # "." /\ ~IsAccepted(s[i])

BothValid == ~Malformed(a) /\ ~Malformed(b)

PartsA == Version_from(a).parts

PartsB == Version_from(b).parts

\* C1: compare(a, b) is Err exactly when a or b fails to parse (empty input,
\* an empty segment, a character outside the accepted alphabet), and Ok for
\* every pair that parses; compare("", "1.0") and compare("1..0", "1.0")
\* are Err.
C1_ErrIffUnparsable ==
    pc = "compare" =>
        /\ (result = Err) <=> (Malformed(a) \/ Malformed(b))
        /\ result.ok <=> BothValid
        /\ (a = S_empty /\ b = S_1_0) => result = Err
        /\ (a = S_1__0 /\ b = S_1_0) => result = Err

C1_Witness ==
    pc = "compare" /\ a = S_1__0 /\ b = S_1_0 /\ result = Err

\* C2: whenever compare(a, b) is Ok(r), r is one of Eq, Lt, Gt, never Le, Ge
\* or Ne.
C2_OkIsEqLtGt ==
    (pc = "compare" /\ result.ok) => result.val \in {"Eq", "Lt", "Gt"}

C2_Witness ==
    pc = "compare" /\ a = S_1 /\ b = S_0_1 /\ result = Ok("Gt")

\* The operator table of section 4.4, on a three-way result.
Holds(r, op) ==
    \/ op = "Eq" /\ r = "Eq"
    \/ op = "Ne" /\ r # "Eq"
    \/ op = "Lt" /\ r = "Lt"
    \/ op = "Gt" /\ r = "Gt"
    \/ op = "Le" /\ r # "Gt"
    \/ op = "Ge" /\ r # "Lt"

\* C3: compare_to(a, b, op) is Err exactly when compare(a, b) is Err,
\* whatever op is; otherwise it is Ok(t) with t the value of op on the
\* outcome r of compare(a, b): r = Eq for Eq, r # Eq for Ne, r = Lt for Lt,
\* r = Gt for Gt, r # Gt for Le, r # Lt for Ge.
C3_CompareToFollowsCompare ==
    pc = "compare_to" =>
        /\ (result_to = Err) <=> (compare(a, b) = Err)
        /\ compare(a, b).ok =>
               result_to = Ok(Holds(compare(a, b).val, operator))

C3_Witness ==
    /\ pc = "compare_to" /\ a = S_1_2_3 /\ b = S_1_2_3
    /\ operator = "Le" /\ result_to = Ok(TRUE)

\* C4: for valid a, b whose comparison is not Eq and every operator op,
\* compare_to(a, b, op) is the negation of compare_to(a, b, op.invert());
\* compare_to("1.2.3", "1.2", Ne) is true.
C4_InvertNegates ==
    pc = "compare_to" =>
        /\ (BothValid /\ compare(a, b) # Ok("Eq")) =>
               /\ result_to.ok
               /\ compare_to(a, b, CompOp_invert(operator)).ok
               /\ result_to.val =
                      ~compare_to(a, b, CompOp_invert(operator)).val
        /\ (a = S_1_2_3 /\ b = S_1_2 /\ operator = "Ne") =>
               result_to = Ok(TRUE)

C4_Witness ==
    /\ pc = "compare_to" /\ a = S_1_2_3 /\ b = S_1_2
    /\ operator = "Ne" /\ result_to = Ok(TRUE)

\* C5: for valid a, b with r the outcome of compare(a, b) (Eq included),
\* compare_to(a, b, r) is Ok(true) and compare_to(a, b, r.invert()) is
\* Ok(false).
C5_OutcomeHoldsInverseFails ==
    (pc = "compare_to" /\ BothValid) =>
        /\ compare(a, b).ok
        /\ operator = compare(a, b).val => result_to = Ok(TRUE)
        /\ operator = CompOp_invert(compare(a, b).val) =>
               result_to = Ok(FALSE)

C5_Witness ==
    /\ pc = "compare_to" /\ a = S_1_0_0 /\ b = S_1
    /\ operator = "Ne" /\ result_to = Ok(FALSE)

\* The inverse outcome: Lt pairs with Gt, Eq with Eq.
InverseOutcome(r) ==
    CASE r = "Lt" -> "Gt"
      [] r = "Gt" -> "Lt"
      [] r = "Eq" -> "Eq"
      [] OTHER -> "no outcome"

\* C6: for valid a, b, compare(a, b) and compare(b, a) are inverse outcomes
\* (Lt with Gt, Eq with Eq); compare(v, v) is Eq.
C6_Antisymmetry ==
    (pc = "compare" /\ BothValid) =>
        /\ result.ok
        /\ compare(b, a) = Ok(InverseOutcome(result.val))
        /\ a = b => result = Ok("Eq")

C6_Witness ==
    /\ pc = "compare" /\ a = S_1_1 /\ b = S_1_1_1
    /\ result = Ok("Lt") /\ compare(b, a) = Ok("Gt")

\* C7: transitivity: if compare(a, b) = Lt and compare(b, c) = Lt then
\* compare(a, c) = Lt.
C7_Transitivity ==
    pc = "chain_ac" => chain[3] = Ok("Lt")

C7_Witness ==
    /\ pc = "chain_ac"
    /\ a = <<"1">> /\ b = <<"1", ".", "0", ".", "1">> /\ c = <<"1", ".", "a">>
    /\ chain = <<Ok("Lt"), Ok("Lt"), Ok("Lt")>>

\* C8 as stated: compare("1.alpha", "1.1") is Lt.
C8_AlphaLessThanOne ==
    (pc = "compare" /\ a = S_1_alpha /\ b = S_1_1) => result = Ok("Lt")

\* C8 as amended: compare("1.alpha", "1.1") is Gt, the version holding the
\* Text part "alpha" at the second position being greater than the one
\* holding the Numeric part 1 there.
C8_AlphaGreaterThanOne ==
    (pc = "compare" /\ a = S_1_alpha /\ b = S_1_1) => result = Ok("Gt")

C8_Witness ==
    pc = "compare" /\ a = S_1_alpha /\ b = S_1_1 /\ result = Ok("Gt")

IsZero(p) == p.kind = "Number" /\ p.num = 0

\* The parts of a are a proper prefix of the parts of b.
ProperPrefix(ps, qs) ==
    /\ Len(ps) < Len(qs)
    /\ \A i \in 1..Len(ps) : ps[i] = qs[i]

\* C9: trailing-zero rule: when a's parts are a proper prefix of b's parts,
\* compare(a, b) is Eq if and only if every extra part of b is Numeric zero,
\* and Lt otherwise; compare("1.0.0", "1") and compare("1.2.0.0", "1.2") are
\* Eq, compare("1.1", "1.1.1") is Lt.
C9_TrailingZeroRule ==
    (pc = "compare" /\ BothValid) =>
        /\ ProperPrefix(PartsA, PartsB) =>
               result = IF \A i \in (Len(PartsA) + 1)..Len(PartsB) :
                               IsZero(PartsB[i])
                        THEN Ok("Eq") ELSE Ok("Lt")
        /\ (a = S_1_0_0 /\ b = S_1) => result = Ok("Eq")
        /\ (a = S_1_2_0_0 /\ b = S_1_2) => result = Ok("Eq")
        /\ (a = S_1_1 /\ b = S_1_1_1) => result = Ok("Lt")

C9_Witness ==
    /\ pc = "compare" /\ a = S_1 /\ b = <<"1", ".", "0", ".", "a">>
    /\ ProperPrefix(PartsA, PartsB) /\ result = Ok("Lt")

\* s is before t in lexicographic order by character code.
LexLess(s, t) ==
    \E k \in 1..(Len(t)) :
        /\ \A j \in 1..(k - 1) : j <= Len(s) /\ s[j] = t[j]
        /\ \/ k = Len(s) + 1
           \/ k <= Len(s) /\ Code(s[k]) < Code(t[k])

\* The ordering of two parts that are not equal.
PartOrder(p, q) ==
    IF p.kind = "Number" /\ q.kind = "Number"
    THEN IF p.num < q.num THEN "Lt" ELSE "Gt"
    ELSE IF p.kind = "Text" /\ q.kind = "Text"
    THEN IF LexLess(p.text, q.text) THEN "Lt" ELSE "Gt"
    ELSE IF p.kind = "Number" THEN "Lt" ELSE "Gt"

\* C10: first-difference rule: if i is the first index at which both
\* versions have a part and the parts differ, compare(a, b) is the ordering
\* of those two parts, whatever follows: by value for two Numeric parts,
\* lexicographic by character code for two Text parts, and a Numeric part
\* less than a Text part.
C10_FirstDifference ==
    (pc = "compare" /\ BothValid) =>
        \A i \in 1..Len(PartsA) :
            ( /\ i <= Len(PartsB)
              /\ PartsA[i] # PartsB[i]
              /\ \A j \in 1..(i - 1) : PartsA[j] = PartsB[j] )
            => result = Ok(PartOrder(PartsA[i], PartsB[i]))

C10_Witness ==
    /\ pc = "compare" /\ a = <<"0", ".", "a">> /\ b = <<"a", ".", "0">>
    /\ result = Ok("Lt")

=============================================================================
